---- MODULE Spec2Model ----
(***************************************************************************)
(* Model of package file_extractor (src/extractor.go): ExtractText,        *)
(* isTextFile, isTextByExtension, isTextContentType, isLikelyTextContent   *)
(* and extractPDFText.                                                     *)
(*                                                                         *)
(* Bytes are the integers 0..255, a []byte or a Go string is a sequence of *)
(* bytes, and a path is a sequence of one-character strings.  A Go error   *)
(* is the sequence of the message prefixes it was wrapped with, outermost  *)
(* first; the nil error is the empty sequence.                             *)
(***************************************************************************)
EXTENDS Integers, Sequences, FiniteSets, TLC

(***************************************************************************)
(* Bounds of the model.                                                    *)
(***************************************************************************)
\* longest file content, in bytes
MaxLen == 3
\* size of the sample buffer of isTextFile; stands for the 512 of
\* extractor.go:68, scaled so that files longer than the sample exist
SampleSize == 2
\* page cap of extractPDFText; stands for the 100 of extractor.go:243,
\* scaled so that documents longer than the cap exist
maxPages == 2
\* most pages of a PDF document, above the page cap
MaxDocPages == 3
\* longest run of printable bytes, and of control bytes, in the samples
\* handed to isLikelyTextContent on its own
MaxRun == 20

Min(a, b) == IF a <= b THEN a ELSE b

Prefix(s, n) == SubSeq(s, 1, n)

Suffix(s, i) == SubSeq(s, i, Len(s))

\* all sequences over S of length at most n
RECURSIVE SeqsUpTo(_, _)
SeqsUpTo(S, n) ==
  IF n = 0 THEN {<<>>}
  ELSE LET shorter == SeqsUpTo(S, n - 1)
       IN  shorter \cup {Append(s, x) : s \in {t \in shorter : Len(t) = n - 1}, x \in S}

RECURSIVE Rep(_, _)
Rep(x, n) == IF n = 0 THEN <<>> ELSE <<x>> \o Rep(x, n - 1)

(***************************************************************************)
(* The byte alphabet of file contents:                                     *)
(*   0 NUL, 1 a control byte, 10 newline, 66 'B', 77 'M',                  *)
(*   195 169 the UTF-8 encoding of U+00E9, 255 never valid in UTF-8.       *)
(***************************************************************************)
Bytes == {0, 1, 10, 66, 77, 195, 169, 255}

NoErr == <<>>

(***************************************************************************)
(* unicode/utf8: Valid / ValidString.  One step decodes the encoding that  *)
(* starts at position i and gives its length, or 0 when it is ill-formed.  *)
(***************************************************************************)
IsCont(b) == b >= 128 /\ b <= 191

RuneLen(d, i) ==
  LET b0 == d[i]
      has(k) == i + k <= Len(d)
      c(k) == d[i + k]
  IN  IF b0 < 128 THEN 1
      ELSE IF b0 >= 194 /\ b0 <= 223
        THEN IF has(1) /\ IsCont(c(1)) THEN 2 ELSE 0
      ELSE IF b0 = 224
        THEN IF has(2) /\ c(1) >= 160 /\ c(1) <= 191 /\ IsCont(c(2)) THEN 3 ELSE 0
      ELSE IF (b0 >= 225 /\ b0 <= 236) \/ b0 = 238 \/ b0 = 239
        THEN IF has(2) /\ IsCont(c(1)) /\ IsCont(c(2)) THEN 3 ELSE 0
      ELSE IF b0 = 237
        THEN IF has(2) /\ c(1) >= 128 /\ c(1) <= 159 /\ IsCont(c(2)) THEN 3 ELSE 0
      ELSE IF b0 = 240
        THEN IF has(3) /\ c(1) >= 144 /\ c(1) <= 191 /\ IsCont(c(2)) /\ IsCont(c(3))
             THEN 4 ELSE 0
      ELSE IF b0 >= 241 /\ b0 <= 243
        THEN IF has(3) /\ IsCont(c(1)) /\ IsCont(c(2)) /\ IsCont(c(3)) THEN 4 ELSE 0
      ELSE IF b0 = 244
        THEN IF has(3) /\ c(1) >= 128 /\ c(1) <= 143 /\ IsCont(c(2)) /\ IsCont(c(3))
             THEN 4 ELSE 0
      ELSE 0

RECURSIVE ValidFrom(_, _)
ValidFrom(d, i) ==
  IF i > Len(d) THEN TRUE
  ELSE LET n == RuneLen(d, i)
       IN  IF n = 0 THEN FALSE ELSE ValidFrom(d, i + n)

utf8Valid(d) == ValidFrom(d, 1)

(***************************************************************************)
(* isLikelyTextContent (extractor.go:174-214)                              *)
(***************************************************************************)
\* the first two cases of the switch at extractor.go:196-200
IsPrintable(b) == (b >= 32 /\ b <= 126) \/ b = 9 \/ b = 10 \/ b = 13

printableCount(data) == Cardinality({i \in 1..Len(data) : IsPrintable(data[i])})

\* a slip of extractor.go:213: >= in place of >
RatioAtLeast(p, n) == 100 * p >= 85 * n

\* float64(printableCount) / float64(totalChars) > 0.85.  Both sides are the
\* float64 nearest to a rational with denominator at most 512 resp. to
\* 17/20, so the comparison agrees with the exact one, 100 p > 85 n.
RatioAbove(p, n) == 100 * p > 85 * n

isLikelyTextContent(data) ==
  IF Len(data) = 0 THEN TRUE
  ELSE IF ~utf8Valid(data) THEN FALSE
  ELSE IF \E i \in 1..Len(data) : data[i] = 0 THEN FALSE
  ELSE RatioAbove(printableCount(data), Len(data))

(***************************************************************************)
(* strings.ToLower, strings.TrimSpace, strings.Split(s, ";")[0] and        *)
(* strings.HasPrefix on sequences of characters.                           *)
(***************************************************************************)
UpperCase == <<"A","B","C","D","E","F","G","H","I","J","K","L","M","N","O","P","Q","R","S","T","U","V","W","X","Y","Z">>

LowerCase == <<"a","b","c","d","e","f","g","h","i","j","k","l","m","n","o","p","q","r","s","t","u","v","w","x","y","z">>

ToLowerChar(c) ==
  IF \E i \in 1..26 : UpperCase[i] = c
  THEN LowerCase[CHOOSE i \in 1..26 : UpperCase[i] = c]
  ELSE c

ToLower(s) == [i \in 1..Len(s) |-> ToLowerChar(s[i])]

\* the white space of unicode.IsSpace that the strings of the model hold
IsSpaceChar(c) == c \in {" ", "\t", "\n", "\r", "\f"}

RECURSIVE TrimLeft(_)
TrimLeft(s) == IF s # <<>> /\ IsSpaceChar(Head(s)) THEN TrimLeft(Tail(s)) ELSE s

RECURSIVE TrimRight(_)
TrimRight(s) ==
  IF s # <<>> /\ IsSpaceChar(s[Len(s)]) THEN TrimRight(Prefix(s, Len(s) - 1)) ELSE s

TrimSpace(s) == TrimRight(TrimLeft(s))

HasPrefix(s, p) == Len(s) >= Len(p) /\ Prefix(s, Len(p)) = p

\* strings.Split(s, sep)[0]: the part of s before the first sep, or all of s
RECURSIVE BeforeFirst(_, _)
BeforeFirst(s, sep) ==
  IF s = <<>> \/ Head(s) = sep THEN <<>>
  ELSE <<Head(s)>> \o BeforeFirst(Tail(s), sep)

\* a slip of filepath.Ext: the scan does not stop at a path separator
ExtAcrossSeparators(path) ==
  IF \E k \in 1..Len(path) : path[k] = "."
  THEN SubSeq(path, CHOOSE k \in 1..Len(path) :
                      path[k] = "." /\ \A j \in (k + 1)..Len(path) : path[j] # ".",
              Len(path))
  ELSE <<>>

(***************************************************************************)
(* filepath.Ext: scan back from the end of the path to the first dot,      *)
(* giving up at a path separator.                                          *)
(***************************************************************************)
RECURSIVE ExtFrom(_, _)
ExtFrom(path, i) ==
  IF i < 1 \/ path[i] = "/" THEN <<>>
  ELSE IF path[i] = "." THEN Suffix(path, i)
  ELSE ExtFrom(path, i - 1)

Ext(path) == ExtFrom(path, Len(path))

(***************************************************************************)
(* isTextByExtension (extractor.go:91-137)                                 *)
(***************************************************************************)
textExtensions == {
    <<".","t","x","t">>,
    <<".","m","d">>,
    <<".","m","a","r","k","d","o","w","n">>,
    <<".","r","s","t">>,
    <<".","c","s","v">>,
    <<".","t","s","v">>,
    <<".","l","o","g">>,
    <<".","c","o","n","f">>,
    <<".","c","f","g">>,
    <<".","i","n","i">>,
    <<".","y","a","m","l">>,
    <<".","y","m","l">>,
    <<".","j","s","o","n">>,
    <<".","x","m","l">>,
    <<".","h","t","m","l">>,
    <<".","h","t","m">>,
    <<".","c","s","s">>,
    <<".","j","s">>,
    <<".","t","s">>,
    <<".","p","y">>,
    <<".","g","o">>,
    <<".","j","a","v","a">>,
    <<".","c">>,
    <<".","c","p","p">>,
    <<".","h">>,
    <<".","h","p","p">>,
    <<".","s","h">>,
    <<".","b","a","s","h">>,
    <<".","z","s","h">>,
    <<".","f","i","s","h">>,
    <<".","p","s","1">>,
    <<".","s","q","l">>,
    <<".","r">>,
    <<".","r","b">>,
    <<".","p","h","p">>,
    <<".","p","l">>,
    <<".","t","e","x">>,
    <<".","b","i","b">>,
    <<>> }

isTextByExtension(filePath) == ToLower(Ext(filePath)) \in textExtensions

(***************************************************************************)
(* isTextContentType (extractor.go:140-171)                                *)
(***************************************************************************)
textTypes == {
    <<"t","e","x","t","/","p","l","a","i","n">>,
    <<"t","e","x","t","/","h","t","m","l">>,
    <<"t","e","x","t","/","c","s","s">>,
    <<"t","e","x","t","/","j","a","v","a","s","c","r","i","p","t">>,
    <<"t","e","x","t","/","c","s","v">>,
    <<"t","e","x","t","/","x","m","l">>,
    <<"a","p","p","l","i","c","a","t","i","o","n","/","j","s","o","n">>,
    <<"a","p","p","l","i","c","a","t","i","o","n","/","x","m","l">>,
    <<"a","p","p","l","i","c","a","t","i","o","n","/","j","a","v","a","s","c","r","i","p","t">>,
    <<"a","p","p","l","i","c","a","t","i","o","n","/","x","-","s","h">>,
    <<"a","p","p","l","i","c","a","t","i","o","n","/","x","-","p","y","t","h","o","n">>,
    <<"a","p","p","l","i","c","a","t","i","o","n","/","x","-","p","e","r","l">>,
    <<"a","p","p","l","i","c","a","t","i","o","n","/","x","-","r","u","b","y">>,
    <<"a","p","p","l","i","c","a","t","i","o","n","/","x","-","p","h","p">>,
    <<"a","p","p","l","i","c","a","t","i","o","n","/","s","q","l">>,
    <<"a","p","p","l","i","c","a","t","i","o","n","/","y","a","m","l">>,
    <<"a","p","p","l","i","c","a","t","i","o","n","/","x","-","y","a","m","l">> }

TextSlash == <<"t","e","x","t","/">>

isTextContentType(contentType) ==
  LET mainType == TrimSpace(ToLower(BeforeFirst(contentType, ";")))
  IN  IF HasPrefix(mainType, TextSlash) THEN TRUE ELSE mainType \in textTypes

(***************************************************************************)
(* http.DetectContentType, called at extractor.go:75: the sniffing         *)
(* algorithm of net/http, with the signatures of its table that a sample   *)
(* over Bytes can match: the exact signature "BM", then the text           *)
(* signature, then the fallback.                                           *)
(***************************************************************************)
TextPlain == <<"t","e","x","t","/","p","l","a","i","n">>

TextPlainUtf8 == <<"t","e","x","t","/","p","l","a","i","n",";"," ","c","h","a","r","s","e","t","=","u","t","f","-","8">>

ImageBmp == <<"i","m","a","g","e","/","b","m","p">>

OctetStream == <<"a","p","p","l","i","c","a","t","i","o","n","/","o","c","t","e","t","-","s","t","r","e","a","m">>

\* white space skipped before the text signature: \t \n \x0c \r and space
IsSniffWS(b) == b \in {9, 10, 12, 13, 32}

\* the "binary data bytes" of the sniffing algorithm
IsBinaryByte(b) ==
  \/ b <= 8
  \/ b = 11
  \/ (b >= 14 /\ b <= 26)
  \/ (b >= 28 /\ b <= 31)

sniffSignatures == << [sig |-> <<66, 77>>, ct |-> ImageBmp] >>

RECURSIVE SkipWS(_)
SkipWS(data) == IF data # <<>> /\ IsSniffWS(Head(data)) THEN SkipWS(Tail(data)) ELSE data

DetectContentType(data) ==
  LET d == Prefix(data, Min(Len(data), SampleSize))
      hits == {k \in 1..Len(sniffSignatures) : HasPrefix(d, sniffSignatures[k].sig)}
      rest == SkipWS(d)
  IN  IF hits # {} THEN sniffSignatures[CHOOSE k \in hits : \A j \in hits : k <= j].ct
      ELSE IF \A i \in 1..Len(rest) : ~IsBinaryByte(rest[i]) THEN TextPlainUtf8
      ELSE OctetStream

(***************************************************************************)
(* The program state.                                                      *)
(*   pc          where the call stands                                     *)
(*   filePath    the argument of the call                                  *)
(*   fileData    the content of the file at filePath                       *)
(*   ret         what ExtractText returned: (success, text, error)         *)
(*   cls         what isTextFile returned: (isText, mime, error)           *)
(*   buffer      buffer[:n], the sample isTextFile read                    *)
(*   io          the file-system and PDF-library calls made, in order      *)
(*   fault       the I/O failure the collaborators produced, if any        *)
(*   readerOk    whether pdf.NewReader gave a reader                       *)
(*   docPages    reader.NumPage()                                          *)
(*   numPages    the loop bound of extractPDFText                          *)
(*   i           the loop index of extractPDFText                          *)
(*   textBuffer  the bytes.Buffer of extractPDFText                        *)
(*   extracted   the texts GetPlainText returned, in the order returned    *)
(*   skipped     the page indices that were null or failed                 *)
(*   requested   the page indices handed to reader.Page, in order          *)
(*   sample      the argument of a direct call of isLikelyTextContent      *)
(*   result      what a direct call of a predicate returned                *)
(***************************************************************************)
VARIABLES pc, filePath, fileData, ret, cls, buffer, io, fault,
          readerOk, docPages, numPages, i, textBuffer, extracted, skipped,
          requested, sample, result

vars == <<pc, filePath, fileData, ret, cls, buffer, io, fault,
          readerOk, docPages, numPages, i, textBuffer, extracted, skipped,
          requested, sample, result>>

pdfVars == <<readerOk, docPages, numPages, i, textBuffer, extracted, skipped, requested>>

Triple(ok, text, err) == [success |-> ok, text |-> text, err |-> err]

Verdict(isText, mime, err) == [isText |-> isText, mime |-> mime, err |-> err]

\* the message prefixes of the fmt.Errorf calls
ErrAnalyze == "failed to analyze file type"

ErrOpen == "failed to open file"

ErrSample == "failed to read file sample"

ErrReadFile == "failed to read file"

ErrPdfOpen == "failed to open PDF file"

ErrPdfStat == "failed to get PDF file info"

(***************************************************************************)
(* Inputs.                                                                 *)
(***************************************************************************)
Paths == {
    <<"a",".","t","x","t">>,
    <<"a",".","T","X","T">>,
    <<"d",".","x","/","R","E","A","D","M","E">>,
    <<"a",".","b","i","n">>,
    <<"a",".","p","d","f">>,
    <<"a",".","P","D","F">> }

Contents == SeqsUpTo(Bytes, MaxLen)

\* what GetPlainText can return for a page
PageTexts == {<<>>, <<"a">>, <<" ">>}

DotPdf == <<".","p","d","f">>

IsPdfPath(path) == ToLower(Ext(path)) = DotPdf

Blank ==
  /\ ret = Triple(FALSE, <<>>, NoErr)
  /\ cls = Verdict(FALSE, <<>>, NoErr)
  /\ buffer = <<>>
  /\ io = <<>>
  /\ fault = "none"
  /\ readerOk = FALSE
  /\ docPages = 0
  /\ numPages = 0
  /\ i = 0
  /\ textBuffer = <<>>
  /\ extracted = <<>>
  /\ skipped = {}
  /\ requested = <<>>
  /\ result = FALSE

\* The bytes of a PDF file are read by the PDF library alone, whose outcomes
\* PDF_NewReader and PDF_Page draw; the model leaves them empty.
Init ==
  /\ pc = "ExtractText"
  /\ filePath \in Paths
  /\ fileData \in (IF IsPdfPath(filePath) THEN {<<>>} ELSE Contents)
  /\ sample = <<>>
  /\ Blank

(***************************************************************************)
(* ExtractText, the path that is not a PDF (extractor.go:21-51), and       *)
(* isTextFile (extractor.go:54-88).                                        *)
(***************************************************************************)
\* extractor.go:23-28: the test for ".pdf", then the call that follows
ExtractText_Entry ==
  /\ pc = "ExtractText"
  /\ pc' = IF IsPdfPath(filePath) THEN "extractPDFText" ELSE "isTextFile"
  /\ UNCHANGED <<filePath, fileData, ret, cls, buffer, io, fault, pdfVars, sample, result>>

\* extractor.go:56-58: method 1
IsTextFile_Extension ==
  /\ pc = "isTextFile"
  /\ IF isTextByExtension(filePath)
     THEN cls' = Verdict(TRUE, TextPlain, NoErr) /\ pc' = "classified"
     ELSE cls' = cls /\ pc' = "open"
  /\ UNCHANGED <<filePath, fileData, ret, buffer, io, fault, pdfVars, sample, result>>

\* extractor.go:61-64: os.Open succeeds or fails
IsTextFile_Open ==
  /\ pc = "open"
  /\ io' = Append(io, "Open")
  /\ \/ /\ pc' = "read"
        /\ UNCHANGED <<cls, fault>>
     \/ /\ cls' = Verdict(FALSE, <<>>, <<ErrOpen>>)
        /\ fault' = "open"
        /\ pc' = "classified"
  /\ UNCHANGED <<filePath, fileData, ret, buffer, pdfVars, sample, result>>

\* the counts file.Read can return for a buffer of SampleSize bytes: 0 with
\* io.EOF at the end of the file, else at least one byte and at most what
\* the buffer and the file hold
ReadCounts(data) == IF Len(data) = 0 THEN {0} ELSE 1..Min(SampleSize, Len(data))

\* a slip of extractor.go:75-87: the byte heuristic tried before the
\* sniffed type
ClassifyHeuristicFirst(smp) ==
  LET contentType == DetectContentType(smp)
  IN  IF Len(smp) > 0 /\ isLikelyTextContent(smp) THEN Verdict(TRUE, TextPlain, NoErr)
      ELSE IF isTextContentType(contentType) THEN Verdict(TRUE, contentType, NoErr)
      ELSE Verdict(FALSE, contentType, NoErr)

\* extractor.go:75-87: methods 2 to 4 on buffer[:n]
Classify(smp) ==
  LET contentType == DetectContentType(smp)
  IN  IF isTextContentType(contentType) THEN Verdict(TRUE, contentType, NoErr)
      ELSE IF Len(smp) > 0 /\ isLikelyTextContent(smp) THEN Verdict(TRUE, TextPlain, NoErr)
      ELSE Verdict(FALSE, contentType, NoErr)

\* extractor.go:68-88: file.Read fails, or gives n bytes and the rest runs
IsTextFile_Read ==
  /\ pc = "read"
  /\ io' = Append(io, "Read")
  /\ pc' = "classified"
  /\ \/ /\ cls' = Verdict(FALSE, <<>>, <<ErrSample>>)
        /\ fault' = "sample"
        /\ UNCHANGED buffer
     \/ \E n \in ReadCounts(fileData) :
          /\ buffer' = Prefix(fileData, n)
          /\ cls' = Classify(buffer')
          /\ UNCHANGED fault
  /\ UNCHANGED <<filePath, fileData, ret, pdfVars, sample, result>>

\* extractor.go:29-35: what ExtractText does with the verdict
ExtractText_Classified ==
  /\ pc = "classified"
  /\ IF cls.err # NoErr
     THEN ret' = Triple(FALSE, <<>>, <<ErrAnalyze>> \o cls.err) /\ pc' = "done"
     ELSE IF ~cls.isText
          THEN ret' = Triple(FALSE, <<>>, NoErr) /\ pc' = "done"
          ELSE ret' = ret /\ pc' = "readFile"
  /\ UNCHANGED <<filePath, fileData, cls, buffer, io, fault, pdfVars, sample, result>>

\* a slip of extractor.go:38: the sample returned in place of the file
ReadFileSampleOnly(data) == Prefix(data, Min(Len(data), SampleSize))

\* extractor.go:38 and 43: os.ReadFile gives the whole file, string(data)
\* keeps its bytes
ReadFile(data) == data

\* a slip of extractor.go:46: only the leading sample is validated
ValidStringOfSample(content) == utf8Valid(Prefix(content, Min(Len(content), SampleSize)))

\* extractor.go:46: utf8.ValidString on the whole content
ValidString(content) == utf8Valid(content)

\* extractor.go:45-50: the two returns after a successful read
ReturnContent(content) ==
  IF ~ValidString(content) THEN Triple(FALSE, <<>>, NoErr)
  ELSE Triple(TRUE, content, NoErr)

\* extractor.go:38-50: os.ReadFile fails, or the content is validated
ExtractText_ReadFile ==
  /\ pc = "readFile"
  /\ io' = Append(io, "ReadFile")
  /\ pc' = "done"
  /\ \/ /\ ret' = Triple(FALSE, <<>>, <<ErrReadFile>>)
        /\ fault' = "readFile"
     \/ /\ ret' = ReturnContent(ReadFile(fileData))
        /\ UNCHANGED fault
  /\ UNCHANGED <<filePath, fileData, cls, buffer, pdfVars, sample, result>>

(***************************************************************************)
(* extractPDFText (extractor.go:217-274)                                   *)
(***************************************************************************)
\* extractor.go:219-222: os.Open succeeds or fails
PDF_Open ==
  /\ pc = "extractPDFText"
  /\ io' = Append(io, "Open")
  /\ \/ /\ pc' = "stat"
        /\ UNCHANGED <<ret, fault>>
     \/ /\ ret' = Triple(FALSE, <<>>, <<ErrPdfOpen>>)
        /\ fault' = "pdfOpen"
        /\ pc' = "done"
  /\ UNCHANGED <<filePath, fileData, cls, buffer, pdfVars, sample, result>>

\* extractor.go:226-229: file.Stat succeeds or fails
PDF_Stat ==
  /\ pc = "stat"
  /\ io' = Append(io, "Stat")
  /\ \/ /\ pc' = "newReader"
        /\ UNCHANGED <<ret, fault>>
     \/ /\ ret' = Triple(FALSE, <<>>, <<ErrPdfStat>>)
        /\ fault' = "pdfStat"
        /\ pc' = "done"
  /\ UNCHANGED <<filePath, fileData, cls, buffer, pdfVars, sample, result>>

\* a slip of extractor.go:244-246: the cap is not applied
CapPagesOff(n) == n

\* extractor.go:243-246: the loop bound for a document of n pages
CapPages(n) == IF n > maxPages THEN maxPages ELSE n

\* extractor.go:232-246: pdf.NewReader fails, because the bytes are no PDF
\* or because reading them from the file failed, or gives a reader over a
\* document of n pages
PDF_NewReader ==
  /\ pc = "newReader"
  /\ io' = Append(io, "NewReader")
  /\ \/ \E cause \in {"malformed", "read"} :
          /\ ret' = Triple(FALSE, <<>>, NoErr)
          /\ fault' = IF cause = "read" THEN "pdfRead" ELSE fault
          /\ pc' = "done"
          /\ UNCHANGED pdfVars
     \/ \E n \in 0..MaxDocPages :
          /\ readerOk' = TRUE
          /\ docPages' = n
          /\ numPages' = CapPages(n)
          /\ i' = 1
          /\ pc' = "page"
          /\ UNCHANGED <<ret, fault, textBuffer, extracted, skipped, requested>>
  /\ UNCHANGED <<filePath, fileData, cls, buffer, sample, result>>

\* extractor.go:260-263: the text of page idx, and a newline unless idx is
\* the loop bound
WritePage(buf, text, idx, n) == buf \o text \o (IF idx < n THEN <<"\n">> ELSE <<>>)

\* extractor.go:248-264: one iteration of the loop: the page is null, or
\* GetPlainText fails (on the page's content, or reading it from the file),
\* or it gives the page's text
PDF_Page ==
  /\ pc = "page"
  /\ i <= numPages
  /\ requested' = Append(requested, i)
  /\ \/ /\ io' = Append(io, "Page")
        /\ skipped' = skipped \cup {i}
        /\ UNCHANGED <<fault, textBuffer, extracted>>
     \/ \E cause \in {"content", "read"} :
          /\ io' = Append(Append(io, "Page"), "GetPlainText")
          /\ skipped' = skipped \cup {i}
          /\ fault' = IF cause = "read" THEN "pageRead" ELSE fault
          /\ UNCHANGED <<textBuffer, extracted>>
     \/ \E text \in PageTexts :
          /\ io' = Append(Append(io, "Page"), "GetPlainText")
          /\ textBuffer' = WritePage(textBuffer, text, i, numPages)
          /\ extracted' = Append(extracted, text)
          /\ UNCHANGED <<fault, skipped>>
  /\ i' = i + 1
  /\ UNCHANGED <<pc, filePath, fileData, ret, cls, buffer, readerOk, docPages,
                 numPages, sample, result>>

\* a slip of extractor.go:270: the text is kept in the negative return
ReturnExtractedKeepingText(extractedText) ==
  IF Len(TrimSpace(extractedText)) = 0 THEN Triple(FALSE, extractedText, NoErr)
  ELSE Triple(TRUE, extractedText, NoErr)

\* a slip of extractor.go:269: the text is not trimmed before the test
ReturnExtractedUntrimmed(extractedText) ==
  IF Len(extractedText) = 0 THEN Triple(FALSE, <<>>, NoErr)
  ELSE Triple(TRUE, extractedText, NoErr)

\* extractor.go:266-273: the two returns after the loop
ReturnExtracted(extractedText) ==
  IF Len(TrimSpace(extractedText)) = 0 THEN Triple(FALSE, <<>>, NoErr)
  ELSE Triple(TRUE, extractedText, NoErr)

\* extractor.go:248 and 266-273: the loop ends and the function returns
PDF_Return ==
  /\ pc = "page"
  /\ i > numPages
  /\ ret' = ReturnExtracted(textBuffer)
  /\ pc' = "done"
  /\ UNCHANGED <<filePath, fileData, cls, buffer, io, fault, pdfVars, sample, result>>

Next ==
  \/ ExtractText_Entry
  \/ IsTextFile_Extension
  \/ IsTextFile_Open
  \/ IsTextFile_Read
  \/ ExtractText_Classified
  \/ ExtractText_ReadFile
  \/ PDF_Open
  \/ PDF_Stat
  \/ PDF_NewReader
  \/ PDF_Page
  \/ PDF_Return

Spec == Init /\ [][Next]_vars

(***************************************************************************)
(* Properties of ExtractText, checked under Spec.                          *)
(***************************************************************************)
Returned == pc = "done"

Count(s, x) == Cardinality({k \in 1..Len(s) : s[k] = x})

\* the largest position of c in s, 0 when there is none
LastIndexOf(s, c) ==
  IF \E k \in 1..Len(s) : s[k] = c
  THEN CHOOSE k \in 1..Len(s) : s[k] = c /\ \A j \in (k + 1)..Len(s) : s[j] # c
  ELSE 0

FinalElement(path) == SubSeq(path, LastIndexOf(path, "/") + 1, Len(path))

\* the suffix of name from its last dot, empty when it has no dot
DotSuffix(name) ==
  IF LastIndexOf(name, ".") = 0 THEN <<>>
  ELSE SubSeq(name, LastIndexOf(name, "."), Len(name))

SameLetter(a, b) ==
  \/ a = b
  \/ \E k \in 1..26 : {a, b} = {UpperCase[k], LowerCase[k]}

EqualFold(s, u) == Len(s) = Len(u) /\ \A k \in 1..Len(s) : SameLetter(s[k], u[k])

\* the extension of the final element is, up to letter case, in the set
ExtensionListed(path) ==
  \E e \in textExtensions : EqualFold(DotSuffix(FinalElement(path)), e)

PdfNamed(path) == EqualFold(DotSuffix(FinalElement(path)), DotPdf)

HasNonSpace(s) == \E k \in 1..Len(s) : s[k] \notin {" ", "\t", "\n", "\r", "\f"}

RECURSIVE JoinLines(_)
JoinLines(texts) ==
  IF texts = <<>> THEN <<>>
  ELSE IF Len(texts) = 1 THEN texts[1]
  ELSE texts[1] \o <<"\n">> \o JoinLines(Tail(texts))

\* C1: at every return of ExtractText, on the PDF path and off it,
\* success = false implies text = "", and a non-nil error implies
\* success = false and text = "".
ReturnTripleInvariant ==
  Returned =>
    /\ (~ret.success => ret.text = <<>>)
    /\ (ret.err # NoErr => ~ret.success /\ ret.text = <<>>)

\* C1 witness: a PDF whose pages gave only white space: the buffer is not
\* empty, the returned text is.
ReturnTripleWitness ==
  Returned /\ ~ret.success /\ ret.err = NoErr /\ textBuffer # <<>>

\* C2: a path that is not a PDF, a positive verdict, no I/O failure and a
\* content that is valid UTF-8: ExtractText returns (true, content, nil)
\* with content the whole file, byte for byte.
RoundTrip ==
  (Returned /\ ~PdfNamed(filePath) /\ cls.isText /\ fault = "none" /\ utf8Valid(fileData))
    => ret = Triple(TRUE, fileData, NoErr)

\* C2 witness: a file accepted on its sample and longer than the sample,
\* returned whole.
RoundTripWitness ==
  /\ Returned
  /\ Count(io, "Read") = 1
  /\ Len(fileData) > SampleSize
  /\ Len(buffer) < Len(fileData)
  /\ ret = Triple(TRUE, fileData, NoErr)

\* C3: a readable file that is not a PDF and whose content is not valid
\* UTF-8 yields (false, "", nil), whichever method accepted it and also when
\* the invalid bytes lie after the sample; success never comes with a text
\* that is not valid UTF-8.
InvalidUtf8Rejected ==
  /\ (Returned /\ ~PdfNamed(filePath) /\ fault = "none" /\ ~utf8Valid(fileData))
       => ret = Triple(FALSE, <<>>, NoErr)
  /\ (Returned /\ ~PdfNamed(filePath) /\ ret.success) => utf8Valid(ret.text)

\* C3 witness: the byte heuristic accepted a valid sample, the invalid byte
\* came after it, and the call returned (false, "", nil).
InvalidUtf8Witness ==
  /\ Returned
  /\ ~ExtensionListed(filePath)
  /\ cls = Verdict(TRUE, TextPlain, NoErr)
  /\ utf8Valid(buffer)
  /\ ~utf8Valid(fileData)
  /\ Count(io, "ReadFile") = 1
  /\ ret = Triple(FALSE, <<>>, NoErr)

\* the prefix the claim gives to the failure of each stage
StagePrefix(stage) ==
  CASE stage = "open" -> ErrAnalyze
    [] stage = "sample" -> ErrAnalyze
    [] stage = "readFile" -> ErrReadFile
    [] stage = "pdfOpen" -> ErrPdfOpen
    [] stage = "pdfStat" -> ErrPdfStat
    [] OTHER -> ""

\* C4: every failure to open, stat or read the file, at any stage of the
\* call, comes back as (false, "", err) with err non-nil and, for the four
\* named stages, the prefix of the stage; none becomes a negative verdict
\* with a nil error.
IOFailureSurfaced ==
  (Returned /\ fault # "none") =>
    /\ ~ret.success
    /\ ret.text = <<>>
    /\ ret.err # NoErr
    /\ (StagePrefix(fault) # "" => Head(ret.err) = StagePrefix(fault))

PagesJoinedByNewline ==
  (Returned /\ readerOk) => textBuffer = JoinLines(extracted)

\* the sample the content checks see: the one isTextFile read, or the
\* leading bytes of the file when it read none
LeadingSample ==
  IF Count(io, "Read") = 1 THEN buffer
  ELSE Prefix(fileData, Min(Len(fileData), SampleSize))

ContentAccepted(smp) ==
  isTextContentType(DetectContentType(smp)) \/ isLikelyTextContent(smp)

\* C7: for a path that is not a PDF, whatever its extension, success = true
\* only if the content checks accept the leading sample of the file.
OnlyTextContentSucceeds ==
  (Returned /\ ~PdfNamed(filePath) /\ ret.success) => ContentAccepted(LeadingSample)

\* C9: isTextFile tries its methods in order and stops at the first that
\* accepts: a listed extension gives (true, "text/plain", nil) with no open
\* and no read; else one open and one read of at most the sample size, then
\* the sniffed type if the MIME classifier accepts it, else "text/plain" if
\* the sample is not empty and the byte heuristic accepts it, else
\* (false, sniffed type, nil); an error only when the open or the read fails.
MethodOrder ==
  (pc \in {"classified", "readFile", "done"} /\ ~PdfNamed(filePath)) =>
    /\ cls.err # NoErr <=> fault \in {"open", "sample"}
    /\ IF ExtensionListed(filePath)
       THEN cls = Verdict(TRUE, TextPlain, NoErr) /\ Count(io, "Open") = 0 /\ Count(io, "Read") = 0
       ELSE /\ Count(io, "Open") = 1
            /\ fault = "open" => cls = Verdict(FALSE, <<>>, <<ErrOpen>>) /\ Count(io, "Read") = 0
            /\ fault = "sample" => cls = Verdict(FALSE, <<>>, <<ErrSample>>)
            /\ fault \notin {"open", "sample"} =>
                 LET sniffed == DetectContentType(buffer)
                 IN  /\ Count(io, "Read") = 1
                     /\ Len(buffer) <= SampleSize
                     /\ buffer = Prefix(fileData, Len(buffer))
                     /\ cls = IF isTextContentType(sniffed) THEN Verdict(TRUE, sniffed, NoErr)
                              ELSE IF buffer # <<>> /\ isLikelyTextContent(buffer)
                                   THEN Verdict(TRUE, TextPlain, NoErr)
                              ELSE Verdict(FALSE, sniffed, NoErr)

\* C9 witness: the extension and the sniffed type refused, the byte
\* heuristic accepted.
MethodOrderWitness ==
  /\ pc = "classified"
  /\ ~ExtensionListed(filePath)
  /\ ~isTextContentType(DetectContentType(buffer))
  /\ cls = Verdict(TRUE, TextPlain, NoErr)

(***************************************************************************)
(* isTextByExtension called on its own, as TestIsTextByExtension does      *)
(* (extractor_test.go:192-231).                                            *)
(***************************************************************************)
ToUpperChar(c) ==
  IF \E k \in 1..26 : LowerCase[k] = c
  THEN UpperCase[CHOOSE k \in 1..26 : LowerCase[k] = c]
  ELSE c

ToUpper(s) == [k \in 1..Len(s) |-> ToUpperChar(s[k])]

\* s with its second character in upper case
MixedCase(s) == [k \in 1..Len(s) |-> IF k = 2 THEN ToUpperChar(s[k]) ELSE s[k]]

\* the extensions the tests expect to be refused
NonTextExtensions == {
    <<".","p","d","f">>,
    <<".","b","i","n">>,
    <<".","e","x","e">>,
    <<".","j","p","g">>,
    <<".","p","n","g">>,
    <<".","d","o","c","x">>,
    <<".","z","i","p">> }

ExtSuffixes ==
  LET listed == textExtensions \cup NonTextExtensions \cup {<<".">>, <<".","g","z">>}
  IN  listed \cup {ToUpper(e) : e \in listed} \cup {MixedCase(e) : e \in listed}

ExtDirs == {<<>>, <<"d",".","t","x","t","/">>, <<"s","r","c","/">>}

ExtStems == {<<"a">>, <<"R","E","A","D","M","E">>, <<"a",".","b">>, <<".","e","n","v">>}

ExtPaths == {d \o s \o e : d \in ExtDirs, s \in ExtStems, e \in ExtSuffixes}

InitExt ==
  /\ pc = "isTextByExtension"
  /\ filePath \in ExtPaths
  /\ fileData = <<>>
  /\ sample = <<>>
  /\ Blank

\* extractor.go:91-137
Call_isTextByExtension ==
  /\ pc = "isTextByExtension"
  /\ result' = isTextByExtension(filePath)
  /\ pc' = "extReturned"
  /\ UNCHANGED <<filePath, fileData, ret, cls, buffer, io, fault, pdfVars, sample>>

NextExt == Call_isTextByExtension

SpecExt == InitExt /\ [][NextExt]_vars

\* C8: isTextByExtension(path) is true exactly when the suffix from the
\* last dot of the path's final element (empty without a dot) is, up to
\* letter case, in the extension set with the empty extension: true for
\* names without a dot, false for .pdf .bin .exe .jpg .png .docx .zip; it
\* does no I/O and has no error outcome.
ExtensionVerdict ==
  pc = "extReturned" =>
    LET ext == DotSuffix(FinalElement(filePath))
    IN  /\ result = ExtensionListed(filePath)
        /\ (ext = <<>> => result)
        /\ ((\E e \in NonTextExtensions : EqualFold(ext, e)) => ~result)
        /\ io = <<>>
        /\ fault = "none"

\* C8 witness: an extension in upper case, below a directory whose name has
\* a dot, accepted.
ExtensionVerdictWitness ==
  /\ pc = "extReturned"
  /\ result
  /\ DotSuffix(FinalElement(filePath)) \notin textExtensions
  /\ \E k \in 1..LastIndexOf(filePath, "/") : filePath[k] = "."

(***************************************************************************)
(* isLikelyTextContent called on its own, as TestIsLikelyTextContent does  *)
(* (extractor_test.go:265-311).                                            *)
(***************************************************************************)
\* the bytes at the two ends of a sample: the alphabet and the edges of the
\* printable range
EdgeBytes == Bytes \cup {9, 13, 31, 32, 126, 127}

Edges == {<<>>} \cup {<<b>> : b \in EdgeBytes}

\* runs of 'B' and of a control byte between two edges
HeurSamples ==
  {h \o Rep(66, p) \o Rep(1, c) \o t : h \in Edges, p \in 0..MaxRun, c \in 0..MaxRun, t \in Edges}

InitHeur ==
  /\ pc = "isLikelyTextContent"
  /\ filePath = <<>>
  /\ fileData = <<>>
  /\ sample \in HeurSamples
  /\ Blank

\* extractor.go:174-214
Call_isLikelyTextContent ==
  /\ pc = "isLikelyTextContent"
  /\ result' = isLikelyTextContent(sample)
  /\ pc' = "heurReturned"
  /\ UNCHANGED <<filePath, fileData, ret, cls, buffer, io, fault, pdfVars, sample>>

NextHeur == Call_isLikelyTextContent

SpecHeur == InitHeur /\ [][NextHeur]_vars

\* the bytes the claim calls printable
PrintableByte(b) == b \in (32..126) \cup {9, 10, 13}

PrintableIn(s) == Cardinality({k \in 1..Len(s) : PrintableByte(s[k])})

\* C10: isLikelyTextContent is true for the empty sample, false for a
\* sample that is not valid UTF-8 or holds a 0x00 byte, and else true
\* exactly when printable / total > 0.85: a ratio of exactly 0.85 is
\* refused, a sample of printable ASCII is accepted, a sample of control
\* bytes alone is refused.
HeuristicVerdict ==
  pc = "heurReturned" =>
    LET n == Len(sample)
        p == PrintableIn(sample)
        nul == \E k \in 1..n : sample[k] = 0
    IN  /\ (n = 0 => result)
        /\ (n > 0 /\ ~utf8Valid(sample) => ~result)
        /\ (nul => ~result)
        /\ (n > 0 /\ utf8Valid(sample) /\ ~nul => (result <=> 20 * p > 17 * n))
        /\ (n > 0 /\ utf8Valid(sample) /\ ~nul /\ 20 * p = 17 * n => ~result)
        /\ (n > 0 /\ (\A k \in 1..n : sample[k] \in 32..126) => result)
        /\ (n > 0 /\ (\A k \in 1..n : sample[k] < 32 /\ sample[k] \notin {9, 10, 13}) => ~result)

\* C10 witness: 17 printable bytes of 20, a ratio of exactly 0.85, refused.
HeuristicVerdictWitness ==
  /\ pc = "heurReturned"
  /\ Len(sample) = 20
  /\ PrintableIn(sample) = 17
  /\ utf8Valid(sample)
  /\ \A k \in 1..Len(sample) : sample[k] # 0
  /\ ~result

(***************************************************************************)
(* The page loop of extractPDFText, with the scheduling of a sequential    *)
(* program: a call that can take a step takes it.                          *)
(***************************************************************************)
FairSpec == Spec /\ WF_vars(Next)

\* the indices 1..n in ascending order
UpTo(n) == [k \in 1..n |-> k]

PageLoopInv ==
  readerOk =>
    /\ \A k \in 1..Len(requested) : requested[k] = k /\ requested[k] <= maxPages
    /\ pc = "page" => requested = UpTo(i - 1) /\ i <= Min(docPages, maxPages) + 1
    /\ Returned =>
         /\ requested = UpTo(Min(docPages, maxPages))
         /\ Len(extracted) + Cardinality(skipped) = Len(requested)
         /\ ret.err = NoErr

\* C11: for a PDF of any page count n the loop requests the indices
\* 1..min(n, cap), each once and in ascending order, never one above the
\* cap, and then ends; the pages beyond the cap add nothing to the text and
\* cause no error.
PageLoopBounded == []PageLoopInv /\ (pc = "page" ~> Returned)

\* C11 witness: a document longer than the cap, returned after exactly the
\* pages up to the cap were requested.
PageLoopWitness ==
  Returned /\ readerOk /\ docPages > maxPages /\ requested = UpTo(maxPages)

====
